---- MODULE Spec2Model ----
(***************************************************************************)
(* Hierarchical LBA fit run (analysis/py/lba.py): data preparation, model  *)
(* construction, sampling and export, as a state machine; the parameter    *)
(* transforms, the accumulator functions and the race log-likelihood as    *)
(* functions of bounded inputs; the progress checker                       *)
(* (scripts/check_lba_progress.py) and the DDM command                     *)
(* (analysis/py/ddm_hddm.py).                                              *)
(***************************************************************************)
EXTENDS Integers, Sequences, FiniteSets, TLC

\* ------------------------------------------------------------------ bounds
\* Longest input trial table explored.
MaxRows == 2
\* Most trials handed to one evaluation of the race log-likelihood.
MaxRaceTrials == 2
\* Largest number of CPU cores of a host explored.
MaxCores == 64

\* Latest accumulation time on the grid of the accumulator functions.
MaxTime == 4
\* Most calls of pdf_lba_single / cdf_lba_single in one exploration.
MaxEvals == 2

\* --------------------------------------------------------------- constants
\* A missing value (pandas NaN) of a numeric or boolean column.
NaN == -1
\* rt_ms window of the trial filter.
MinRtMs == 200
MaxRtMs == 5000
\* 0.95, in percent: the share of the minimum RT that bounds t0.
BoundPct == 95

VARIABLES
    mode,        \* which specification is running: "run", "params", "race"
    files,       \* number of CSV files found under the input path
    cols,        \* column names of the concatenated input table
    rowsIn,      \* the input rows, in file order
    pymc,        \* PYMC_AVAILABLE
    pc,          \* position of the run
    df,          \* the data frame of load_and_prep_data
    dfcols,      \* its columns
    cats,        \* participants, modalities, ui_modes as returned
    fit,         \* locals of fit_hierarchical_lba
    sampling,    \* "not_started", "returned", "raised", "cancelled"
    artifacts,   \* files written to the output directory, in order
    exitCode,    \* NaN while running, then the process exit code
    msg,         \* message printed to stderr on a fatal error
    prm,         \* SpecParams: raw inputs and derived A, gap, b
    race,        \* SpecRace: evaluated trials
    out,         \* what the run printed and exported: warnings, JSON, reports
    smp,         \* SpecSampler: host, configuration and sampler settings
    chk,         \* SpecProgress: state of check_lba_progress.py
    eng,         \* SpecEngine: evaluations of the accumulator functions
    ddm          \* SpecDdm: state of a run of ddm_hddm.py

vars == <<mode, files, cols, rowsIn, pymc, pc, df, dfcols, cats, fit,
          sampling, artifacts, exitCode, msg, prm, race, out, smp, chk,
          eng, ddm>>

runVars == <<files, cols, rowsIn, pymc, pc, df, dfcols, cats, fit,
             sampling, artifacts, exitCode, msg, out>>

\* ----------------------------------------------------------------- helpers
Min(a, b) == IF a <= b THEN a ELSE b

RECURSIVE Log2(_)
\* np.log2 on the powers of two the input tables produce.
Log2(n) == IF n <= 1 THEN 0 ELSE 1 + Log2(n \div 2)

RECURSIVE Pow2(_)
Pow2(k) == IF k <= 0 THEN 1 ELSE 2 * Pow2(k - 1)

RECURSIVE UniqueFrom(_, _, _)
UniqueFrom(s, i, acc) ==
    IF i > Len(s) THEN acc
    ELSE UniqueFrom(s, i + 1,
                    IF \E j \in 1..Len(acc) : acc[j] = s[i]
                    THEN acc ELSE Append(acc, s[i]))

\* Series.unique(): the distinct values in order of first appearance.
Unique(s) == UniqueFrom(s, 1, <<>>)

\* The index map numbering the values from 1.
IndexOf_OneBased(values, x) == CHOOSE j \in 1..Len(values) : values[j] = x

\* {v: i for i, v in enumerate(values)}[x], 0-based.
IndexOf(values, x) == (CHOOSE j \in 1..Len(values) : values[j] = x) - 1

RECURSIVE SetMin(_)
SetMin(S) ==
    LET x == CHOOSE y \in S : TRUE
    IN IF S = {x} THEN x ELSE Min(x, SetMin(S \ {x}))

\* ------------------------------------------------------------- input data
Column(r, c) ==
    CASE c = "pid" -> r.pid
      [] c = "participant_id" -> r.participant_id
      [] c = "modality" -> r.modality
      [] c = "ui_mode" -> r.ui_mode
      [] c = "rt_ms" -> r.rt_ms
      [] c = "verification_time_ms" -> r.verification_time_ms
      [] c = "movement_time_ms" -> r.movement_time_ms
      [] c = "correct" -> r.correct
      [] c = "error" -> r.error
      [] c = "ID" -> r.ID
      [] c = "target_amplitude_px" -> r.target_amplitude_px
      [] c = "target_width_px" -> r.target_width_px
      [] c = "A" -> r.A
      [] c = "W" -> r.W
      [] c = "pressure" -> r.pressure

\* One CSV row. The alias columns of a logical field hold different values, so
\* that the column a value was taken from can be told from the value.
Row(p, m, u, rt, c, d, pr) ==
    [pid |-> p, participant_id |-> p + 10, modality |-> m, ui_mode |-> u,
     rt_ms |-> rt,
     verification_time_ms |-> IF rt = NaN THEN NaN ELSE rt + 10,
     movement_time_ms |-> IF rt = NaN THEN NaN ELSE rt + 20,
     correct |-> c,
     error |-> IF c = NaN THEN NaN ELSE 1 - c,
     ID |-> d,
     target_amplitude_px |-> IF d = NaN THEN NaN ELSE Pow2(d + 1) - 1,
     target_width_px |-> 1,
     A |-> IF d = NaN THEN NaN ELSE Pow2(d + 2) - 1,
     W |-> 1,
     pressure |-> pr,
     idx |-> 0, ID_norm |-> [nan |-> TRUE, hundredths |-> 0],
     pressure_norm |-> NaN,
     pid_idx |-> NaN, mod_idx |-> NaN, ui_mode_idx |-> NaN]

RowSet ==
    { Row(1, "hand", "static", 300, 1, 1, 1),
      Row(1, "hand", "adaptive", 400, 1, 2, 1),
      Row(2, "gaze", "static", 500, 0, 1, 2),
      Row(1, "hand", "static", 190, 1, 1, 1),
      Row(2, "gaze", "static", 5001, 1, 2, 1),
      Row(1, "hand", "static", NaN, 1, 1, 1),
      Row(1, "hand", "static", 350, NaN, 1, 1),
      Row(2, "gaze", "adaptive", 450, 0, NaN, 1),
      Row(1, "hand", "static", 250, 1, 2, NaN) }

Base == {"pid", "modality", "ui_mode", "rt_ms", "correct", "ID", "pressure"}

\* The column sets (CSV schemas) explored.
Schemas ==
    { Base,
      (Base \ {"rt_ms"}) \cup {"verification_time_ms"},
      (Base \ {"rt_ms"}) \cup {"movement_time_ms"},
      (Base \ {"rt_ms"}) \cup {"verification_time_ms", "movement_time_ms"},
      Base \cup {"verification_time_ms"},
      Base \ {"rt_ms"},
      (Base \ {"correct"}) \cup {"error"},
      Base \cup {"error"},
      Base \ {"correct"},
      (Base \ {"ID"}) \cup {"target_amplitude_px", "target_width_px"},
      (Base \ {"ID"}) \cup {"A", "W"},
      (Base \ {"ID"}) \cup {"target_amplitude_px", "target_width_px", "A", "W"},
      (Base \ {"ID"}) \cup {"target_amplitude_px", "W"},
      Base \ {"ID"},
      Base \ {"rt_ms", "ID"},
      Base \ {"pressure"},
      Base \ {"ui_mode"},
      (Base \ {"pid"}) \cup {"participant_id"},
      Base \cup {"participant_id"},
      Base \cup {"target_amplitude_px", "target_width_px", "A", "W"},
      Base \ {"modality"} }

Tables == UNION { [1..n -> RowSet] : n \in 0..MaxRows }

NoFit ==
    [mod_idx |-> [kind |-> "unset", arr |-> <<>>, int |-> 0],
     ui_mode_idx |-> <<>>,
     pid_idx |-> <<>>,
     min_rt_by_condition |-> <<>>,
     t0_cell |-> <<>>,
     t0 |-> <<>>,
     A |-> <<>>, gap |-> <<>>, b |-> <<>>, s |-> 0,
     sampler |-> [chains |-> NaN, cores |-> NaN, draws |-> NaN, tune |-> NaN,
                  target_accept |-> NaN, max_treedepth |-> NaN,
                  random_seed |-> NaN],
     raisedAt |-> "none"]

NoCats == [participants |-> <<>>, modalities |-> <<>>, ui_modes |-> <<>>]

\* Nothing printed or exported yet. warnings holds a tag per warning printed,
\* json the parameters_by_condition mapping, rhat_report and ess_report the
\* lines of the two diagnostics listings.
NoOut ==
    [warnings |-> {}, json |-> <<>>, rhat_report |-> <<>>, ess_report |-> <<>>,
     diag |-> "not_run"]

\* ---------------------------------------------------------- error handling
\* main's handlers: print the message to stderr and sys.exit(1).
Fatal(m) ==
    /\ pc' = "exit"
    /\ exitCode' = 1
    /\ msg' = m

MsgNoFiles == "Data Error: No CSV files found."
MsgNoRt == "Data Error: No RT column found (need rt_ms, verification_time_ms, or movement_time_ms)"
MsgNoId == "Data Error: ID column not found and cannot be computed (need A/W or target_amplitude_px/target_width_px)"
MsgNoPymc == "Error: PyMC is required for hierarchical LBA analysis."
MsgNotIterable == "Fitting Error: 'int' object is not iterable"
MsgLibrary == "Fitting Error: <library exception>"
MsgInterrupt == "KeyboardInterrupt"
\* str(KeyError(c)) is the quoted column name.
MsgKeyError(c) == "Data Error: '" \o c \o "'"

\* ------------------------------------------------------ load_and_prep_data
\* ~df['error'].astype(bool): a missing value (NaN) is truthy.
NotAsBool(x) == IF x = 0 THEN 1 ELSE 0

\* np.log2(A / W + 1); a missing amplitude or width gives a missing ID.
ShannonID(a, w) == IF a = NaN \/ w = NaN THEN NaN ELSE Log2(a \div w + 1)

\* The rt_ms, correct and ID conditions of the trial filter.
KeepTrial(r) ==
    /\ r.rt_ms # NaN
    /\ r.rt_ms >= MinRtMs
    /\ r.rt_ms <= MaxRtMs
    /\ r.correct # NaN
    /\ r.ID # NaN

OtherVars == <<mode, files, cols, rowsIn, pymc, prm, race, smp, chk, eng, ddm>>

\* Lines 199-208: find and read the CSV files.
LoadFiles ==
    /\ mode = "run" /\ pc = "load"
    /\ IF files = 0
       THEN /\ Fatal(MsgNoFiles)
            /\ UNCHANGED <<df, dfcols>>
       ELSE /\ df' = [i \in 1..Len(rowsIn) |-> [rowsIn[i] EXCEPT !.idx = i]]
            /\ dfcols' = cols
            /\ pc' = "columns"
            /\ UNCHANGED <<exitCode, msg>>
    /\ UNCHANGED <<cats, fit, sampling, artifacts>>
    /\ UNCHANGED out
    /\ UNCHANGED OtherVars

\* Lines 212-213: pid from participant_id.
WithPid(r) ==
    IF "participant_id" \in dfcols /\ "pid" \notin dfcols
    THEN [r EXCEPT !.pid = r.participant_id] ELSE r

\* WithRt with verification_time_ms taken even when rt_ms is present.
WithRt_VerificationFirst(r) ==
    IF "verification_time_ms" \in dfcols
    THEN [r EXCEPT !.rt_ms = r.verification_time_ms]
    ELSE IF "rt_ms" \in dfcols THEN r
    ELSE [r EXCEPT !.rt_ms = r.movement_time_ms]

\* Lines 216-222: rt_ms from verification_time_ms, else movement_time_ms.
WithRt(r) ==
    IF "rt_ms" \in dfcols THEN r
    ELSE IF "verification_time_ms" \in dfcols
         THEN [r EXCEPT !.rt_ms = r.verification_time_ms]
         ELSE [r EXCEPT !.rt_ms = r.movement_time_ms]

\* Lines 226-228: correct from error.
WithCorrect(r) ==
    IF "error" \in dfcols /\ "correct" \notin dfcols
    THEN [r EXCEPT !.correct = NotAsBool(r.error)] ELSE r

\* Lines 210-228: column name mapping.
MapColumns ==
    /\ mode = "run" /\ pc = "columns"
    /\ IF dfcols \cap {"rt_ms", "verification_time_ms", "movement_time_ms"} = {}
       THEN /\ Fatal(MsgNoRt)
            /\ UNCHANGED <<df, dfcols>>
       ELSE /\ df' = [i \in 1..Len(df) |-> WithCorrect(WithRt(WithPid(df[i])))]
            /\ dfcols' = dfcols
                  \cup (IF "participant_id" \in dfcols THEN {"pid"} ELSE {})
                  \cup {"rt_ms"}
                  \cup (IF "error" \in dfcols THEN {"correct"} ELSE {})
            /\ pc' = "difficulty"
            /\ UNCHANGED <<exitCode, msg>>
    /\ UNCHANGED <<cats, fit, sampling, artifacts>>
    /\ UNCHANGED out
    /\ UNCHANGED OtherVars

\* Lines 232-237: ID from target_amplitude_px and target_width_px.
WithIdFromTarget(r) ==
    [r EXCEPT !.A = r.target_amplitude_px, !.W = r.target_width_px,
              !.ID = ShannonID(r.target_amplitude_px, r.target_width_px)]

\* Lines 238-240: ID from A and W.
WithIdFromAW(r) == [r EXCEPT !.ID = ShannonID(r.A, r.W)]

\* Whether an ID can be had: the column, or one of the two amplitude/width pairs.
HasTargetPair(c) == {"target_amplitude_px", "target_width_px"} \subseteq c
HasAWPair(c) == {"A", "W"} \subseteq c

\* ComputeID with the A/W pair tried before the target pair.
ComputeID_AWFirst ==
    /\ mode = "run" /\ pc = "difficulty"
    /\ IF "ID" \in dfcols
       THEN /\ pc' = "pressure"
            /\ UNCHANGED <<df, dfcols, exitCode, msg>>
       ELSE IF HasAWPair(dfcols)
       THEN /\ df' = [i \in 1..Len(df) |-> WithIdFromAW(df[i])]
            /\ dfcols' = dfcols \cup {"ID"}
            /\ pc' = "pressure"
            /\ UNCHANGED <<exitCode, msg>>
       ELSE IF HasTargetPair(dfcols)
       THEN /\ df' = [i \in 1..Len(df) |-> WithIdFromTarget(df[i])]
            /\ dfcols' = dfcols \cup {"A", "W", "ID"}
            /\ pc' = "pressure"
            /\ UNCHANGED <<exitCode, msg>>
       ELSE /\ Fatal(MsgNoId)
            /\ UNCHANGED <<df, dfcols>>
    /\ UNCHANGED <<cats, fit, sampling, artifacts>>
    /\ UNCHANGED out
    /\ UNCHANGED OtherVars

\* Lines 230-242: the difficulty covariate.
ComputeID ==
    /\ mode = "run" /\ pc = "difficulty"
    /\ IF "ID" \in dfcols
       THEN /\ pc' = "pressure"
            /\ UNCHANGED <<df, dfcols, exitCode, msg>>
       ELSE IF HasTargetPair(dfcols)
       THEN /\ df' = [i \in 1..Len(df) |-> WithIdFromTarget(df[i])]
            /\ dfcols' = dfcols \cup {"A", "W", "ID"}
            /\ pc' = "pressure"
            /\ UNCHANGED <<exitCode, msg>>
       ELSE IF HasAWPair(dfcols)
       THEN /\ df' = [i \in 1..Len(df) |-> WithIdFromAW(df[i])]
            /\ dfcols' = dfcols \cup {"ID"}
            /\ pc' = "pressure"
            /\ UNCHANGED <<exitCode, msg>>
       ELSE /\ Fatal(MsgNoId)
            /\ UNCHANGED <<df, dfcols>>
    /\ UNCHANGED <<cats, fit, sampling, artifacts>>
    /\ UNCHANGED out
    /\ UNCHANGED OtherVars

\* Lines 244-247: a missing pressure column defaults to 1.0.
DefaultPressure ==
    /\ mode = "run" /\ pc = "pressure"
    /\ IF "pressure" \notin dfcols
       THEN /\ df' = [i \in 1..Len(df) |-> [df[i] EXCEPT !.pressure = 1]]
            /\ dfcols' = dfcols \cup {"pressure"}
            /\ out' = [out EXCEPT !.warnings = @ \cup {"pressure_default"}]
       ELSE UNCHANGED <<df, dfcols, out>>
    /\ pc' = "filter"
    /\ UNCHANGED <<cats, fit, sampling, artifacts, exitCode, msg>>
    /\ UNCHANGED OtherVars

\* Lines 261-271: the check for error trials among all retained trials. The
\* retained trials have an rt_ms, so the "no RT values" branch needs an empty
\* selection and is never taken.
ErrorTrialWarnings(d) ==
    LET error_trials == SelectSeq(d, LAMBDA r : r.correct = 0)
    IN IF Len(error_trials) = 0 THEN {"no_error_trials"}
       ELSE IF \A i \in 1..Len(error_trials) : error_trials[i].rt_ms = NaN
       THEN {"error_trials_no_rt"}
       ELSE {}

\* FilterTrials with a missing correct column read as "all correct".
FilterTrials_DefaultCorrect ==
    /\ mode = "run" /\ pc = "filter"
    /\ df' = SelectSeq([i \in 1..Len(df) |->
                          IF "correct" \in dfcols THEN df[i]
                          ELSE [df[i] EXCEPT !.correct = 1]], KeepTrial)
    /\ out' = [out EXCEPT !.warnings = @ \cup ErrorTrialWarnings(df')]
    /\ pc' = "normalize"
    /\ UNCHANGED <<exitCode, msg>>
    /\ UNCHANGED <<dfcols, cats, fit, sampling, artifacts>>
    /\ UNCHANGED OtherVars

\* Lines 249-273: the trial filter; df['correct'] raises KeyError without the column.
FilterTrials ==
    /\ mode = "run" /\ pc = "filter"
    /\ IF "correct" \notin dfcols
       THEN /\ Fatal(MsgKeyError("correct"))
            /\ UNCHANGED <<df, out>>
       ELSE /\ df' = SelectSeq(df, KeepTrial)
            /\ out' = [out EXCEPT !.warnings = @ \cup ErrorTrialWarnings(df')]
            /\ pc' = "normalize"
            /\ UNCHANGED <<exitCode, msg>>
    /\ UNCHANGED <<dfcols, cats, fit, sampling, artifacts>>
    /\ UNCHANGED OtherVars

\* Line 280: pressure centred at 1.0; a missing pressure stays missing.
PressureNorm(p) == IF p = NaN THEN NaN ELSE p - 1

\* Sum of the ID column over the first n retained trials.
RECURSIVE SumID(_)
SumID(n) == IF n = 0 THEN 0 ELSE SumID(n - 1) + df[n].ID

\* Len(df) * (ID - mean) of trial i, and the sum of its squares over the first
\* n trials: integers that carry the deviations and the sample variance.
Dev(i) == Len(df) * df[i].ID - SumID(Len(df))

RECURSIVE SumSq(_)
SumSq(n) == IF n = 0 THEN 0 ELSE SumSq(n - 1) + Dev(n) * Dev(n)

\* The integer part of a square root.
ISqrt(x) == CHOOSE k \in 0..x : k * k <= x /\ (k + 1) * (k + 1) > x

\* Line 277: (ID - ID.mean()) / ID.std(), in hundredths. The sample standard
\* deviation (ddof = 1) is NaN for a single trial and 0.0 for equal IDs, and
\* 0.0 / 0.0 is NaN.
IDNorm(i) ==
    IF Len(df) < 2 \/ SumSq(Len(df)) = 0
    THEN [nan |-> TRUE, hundredths |-> 0]
    ELSE [nan |-> FALSE,
          hundredths |->
              (IF Dev(i) < 0 THEN -1 ELSE 1) *
              ISqrt((10000 * Dev(i) * Dev(i) * (Len(df) - 1)) \div SumSq(Len(df)))]

\* Lines 275-285: covariates for the model, default ui_mode.
Normalize ==
    /\ mode = "run" /\ pc = "normalize"
    /\ df' = [i \in 1..Len(df) |->
                [df[i] EXCEPT !.ID_norm = IDNorm(i),
                              !.pressure_norm = PressureNorm(df[i].pressure),
                              !.ui_mode = IF "ui_mode" \in dfcols
                                          THEN df[i].ui_mode ELSE "baseline"]]
    /\ dfcols' = dfcols \cup {"ID_norm", "pressure_norm", "ui_mode"}
    /\ out' = IF "ui_mode" \in dfcols THEN out
              ELSE [out EXCEPT !.warnings = @ \cup {"ui_mode_default"}]
    /\ pc' = "index"
    /\ UNCHANGED <<cats, fit, sampling, artifacts, exitCode, msg>>
    /\ UNCHANGED OtherVars

ColumnValues(c) == [i \in 1..Len(df) |-> Column(df[i], c)]

\* Lines 287-309: categorical indices; df['pid'], df['modality'] raise KeyError
\* without the column.
IndexCategories ==
    /\ mode = "run" /\ pc = "index"
    /\ IF "pid" \notin dfcols
       THEN /\ Fatal(MsgKeyError("pid"))
            /\ UNCHANGED <<df, cats>>
       ELSE IF "modality" \notin dfcols
       THEN /\ Fatal(MsgKeyError("modality"))
            /\ UNCHANGED <<df, cats>>
       ELSE LET participants == Unique(ColumnValues("pid"))
                modalities == Unique(ColumnValues("modality"))
                ui_modes == Unique(ColumnValues("ui_mode"))
            IN /\ cats' = [participants |-> participants,
                           modalities |-> modalities,
                           ui_modes |-> ui_modes]
               /\ df' = [i \in 1..Len(df) |->
                    [df[i] EXCEPT
                       !.pid_idx = IndexOf(participants, df[i].pid),
                       !.mod_idx = IndexOf(modalities, df[i].modality),
                       !.ui_mode_idx = IndexOf(ui_modes, df[i].ui_mode)]]
               /\ pc' = "fit_guard"
               /\ UNCHANGED <<exitCode, msg>>
    /\ UNCHANGED <<dfcols, fit, sampling, artifacts>>
    /\ UNCHANGED out
    /\ UNCHANGED OtherVars

\* ------------------------------------------- parameter transforms (floats)
\* A non-negative IEEE double is kept as its decimal order of magnitude
\* floor(log10 x), or as ZeroF when it is exactly 0.0.
ZeroF == -1000
\* exp(x) is 0.0 in double precision below this argument (x < -745).
ExpUnderflow == -745
\* Orders of magnitude between two doubles below which the smaller is certainly
\* lost in their sum (2^-54 > 10^-17), and from which it certainly is not.
AbsorbGap == 18
KeepGap == 14

RECURSIVE Log10Floor(_)
Log10Floor(n) == IF n < 10 THEN 0 ELSE 1 + Log10Floor(n \div 10)

\* pt.softplus(x) = log(1 + exp(x)) at an integer argument: exp(x) for very
\* negative x (0.0 once exp underflows), log(2) at 0, about x for x >= 1.
\* x * 4343 / 10000 is x * log10(e); \div rounds down.
softplus(x) ==
    IF x < ExpUnderflow THEN ZeroF
    ELSE IF x < 0 THEN (x * 4343) \div 10000
    ELSE IF x = 0 THEN -1
    ELSE Log10Floor(x)

\* Line 383: A = softplus(A_mu + A_offset_raw[pid] * A_sd).
ParamA(r) == softplus(r.A_mu + r.A_offset_raw * r.A_sd)

\* Lines 396-401: gap = softplus(intercept + offset * sd + slope * pressure).
ParamGap(r) ==
    softplus((r.gap_int_mu + r.gap_int_offset_raw * r.gap_int_sd)
             + r.gap_slope_mu * r.pressure_norm)

\* Whether the double A + gap is certainly equal to A, certainly above A.
SumAbsorbs(a, g) == g = ZeroF \/ (a # ZeroF /\ g <= a - AbsorbGap)
SumExceeds(a, g) == g # ZeroF /\ (a = ZeroF \/ g >= a - KeepGap)

\* Line 404: b = A + gap, as the pair and whether b > A as doubles.
\* above is the rounding outcome where neither is certain.
ParamB(a, g, above) ==
    [A |-> a, gap |-> g,
     gtA |-> IF SumAbsorbs(a, g) THEN FALSE
             ELSE IF SumExceeds(a, g) THEN TRUE ELSE above]

\* Line 431.
DriftSd == 1

\* The raw (sampled) values behind one trial's A and gap.
RawMeans == {-800, -40, 0, 2}
RawSds == {0, 1}
RawOffsets == {-1, 1}
RawSlopes == {-1, 0}
PressureNorms == {0, 1}

RawInputs ==
    [A_mu : RawMeans, A_sd : RawSds, A_offset_raw : RawOffsets,
     gap_int_mu : RawMeans, gap_int_sd : RawSds, gap_int_offset_raw : RawOffsets,
     gap_slope_mu : RawSlopes, pressure_norm : PressureNorms]

\* ---------------------------------------------------- fit_hierarchical_lba
\* sigmoid(t0_raw) in thousandths; a double sigmoid reaches 0.0 and 1.0.
SigLevels == {0, 500, 1000}

\* rt_ms / 1000.0 in units of 10^-8 s, the unit of t0 below.
RtObs(r) == 100000 * r.rt_ms

\* Line 351: the mask of the loop over (mod_idx, ui_idx), with the names the
\* code compares: the loop's mod_idx against the column, the local
\* ui_mode_idx array against the column.
Mask(m, u) ==
    { i \in 1..Len(df) :
        /\ m = df[i].mod_idx
        /\ fit.ui_mode_idx[i] = df[i].ui_mode_idx }

\* Lines 353-354: 0.95 of the smallest rt_ms under the mask, in 10^-5 s.
MinRtBound(m, u) == BoundPct * SetMin({ df[i].rt_ms : i \in Mask(m, u) })

\* Line 357.
global_min_rt ==
    IF Len(df) = 0 THEN NaN
    ELSE BoundPct * SetMin({ df[i].rt_ms : i \in 1..Len(df) })

\* Lines 318-331: the guard and the per-trial arrays.
FitEnter ==
    /\ mode = "run" /\ pc = "fit_enter"
    /\ IF ~pymc
       THEN /\ Fatal("Fitting Error: PyMC is required for hierarchical LBA fitting.")
            /\ fit' = [fit EXCEPT !.raisedAt = "import"]
       ELSE /\ fit' = [fit EXCEPT
                 !.pid_idx = [i \in 1..Len(df) |-> df[i].pid_idx],
                 !.mod_idx = [kind |-> "array",
                              arr |-> [i \in 1..Len(df) |-> df[i].mod_idx],
                              int |-> 0],
                 !.ui_mode_idx = [i \in 1..Len(df) |-> df[i].ui_mode_idx]]
            /\ pc' = "fit_min_rt"
            /\ UNCHANGED <<exitCode, msg>>
    /\ UNCHANGED <<df, dfcols, cats, sampling, artifacts>>
    /\ UNCHANGED out
    /\ UNCHANGED OtherVars

\* Lines 347-357: the minimum RT per condition. The loop
\* "for mod_idx, mod in enumerate(modalities)" rebinds the local mod_idx, which
\* is left at the last modality's index when the loop ends.
FitMinRt ==
    /\ mode = "run" /\ pc = "fit_min_rt"
    /\ LET n_m == Len(cats.modalities)
           n_u == Len(cats.ui_modes)
           cells == { c \in (0..(n_m - 1)) \X (0..(n_u - 1)) :
                        Mask(c[1], c[2]) # {} }
       IN fit' = [fit EXCEPT
            !.min_rt_by_condition = [c \in cells |-> MinRtBound(c[1], c[2])],
            !.mod_idx = IF n_m = 0 THEN @
                        ELSE [kind |-> "int", arr |-> <<>>, int |-> n_m - 1]]
    /\ pc' = "fit_t0"
    /\ UNCHANGED <<df, dfcols, cats, sampling, artifacts, exitCode, msg>>
    /\ UNCHANGED out
    /\ UNCHANGED OtherVars

\* mod_idx as an index of trial i: the scalar, or the array's element.
ModIdxAt(i) ==
    IF fit.mod_idx.kind = "int" THEN fit.mod_idx.int ELSE fit.mod_idx.arr[i]

\* Line 365: the entries of t0_mu and t0_offset_raw that trial i's t0_raw reads.
T0Cell(i) ==
    [mu |-> <<ModIdxAt(i), fit.ui_mode_idx[i]>>,
     offset |-> <<fit.pid_idx[i], ModIdxAt(i), fit.ui_mode_idx[i]>>]

\* Lines 371-372: the bound of trial i, looked up by (m, u) from
\* zip(mod_idx, ui_mode_idx).
T0Bound(i) ==
    LET c == <<fit.mod_idx.arr[i], fit.ui_mode_idx[i]>>
    IN IF c \in DOMAIN fit.min_rt_by_condition
       THEN fit.min_rt_by_condition[c] ELSE global_min_rt

\* Lines 359-374: t0_raw, then t0 = sigmoid(t0_raw) * bound. zip() over an
\* integer mod_idx raises TypeError.
FitT0 ==
    /\ mode = "run" /\ pc = "fit_t0"
    /\ IF fit.mod_idx.kind = "int"
       THEN /\ fit' = [fit EXCEPT
                 !.t0_cell = [i \in 1..Len(df) |-> T0Cell(i)],
                 !.raisedAt = "t0"]
            /\ Fatal(MsgNotIterable)
       ELSE /\ \E sig \in [1..Len(df) -> SigLevels] :
                 fit' = [fit EXCEPT
                   !.t0_cell = [i \in 1..Len(df) |-> T0Cell(i)],
                   !.t0 = [i \in 1..Len(df) |-> sig[i] * T0Bound(i)]]
            /\ pc' = "fit_params"
            /\ UNCHANGED <<exitCode, msg>>
    /\ UNCHANGED <<df, dfcols, cats, sampling, artifacts>>
    /\ UNCHANGED out
    /\ UNCHANGED OtherVars

\* Lines 376-431: A, gap, b per trial and the constant s.
FitParams ==
    /\ mode = "run" /\ pc = "fit_params"
    /\ \E raw \in [1..Len(df) -> RawInputs], above \in [1..Len(df) -> BOOLEAN] :
         fit' = [fit EXCEPT
           !.A = [i \in 1..Len(df) |-> ParamA(raw[i])],
           !.gap = [i \in 1..Len(df) |-> ParamGap(raw[i])],
           !.b = [i \in 1..Len(df) |->
                    ParamB(ParamA(raw[i]), ParamGap(raw[i]), above[i])],
           !.s = DriftSd]
    /\ pc' = "fit_sample"
    /\ UNCHANGED <<df, dfcols, cats, sampling, artifacts, exitCode, msg>>
    /\ UNCHANGED out
    /\ UNCHANGED OtherVars

\* Lines 468-480: the number of chains for a host with available_cores cores,
\* with the small-host branch always at 4 chains.
n_chains_NoMin(available_cores) ==
    IF available_cores >= 32 THEN 8
    ELSE IF available_cores >= 8 THEN 4
    ELSE 4

\* Lines 468-480: the number of chains for a host with available_cores cores.
n_chains(available_cores) ==
    IF available_cores >= 32 THEN 8
    ELSE IF available_cores >= 8 THEN 4
    ELSE Min(4, available_cores)

\* Lines 468-480, 516-527: the arguments of pm.sample; target_accept in
\* percent. n_cores is available_cores in every branch.
SamplerSettings(available_cores) ==
    [chains |-> n_chains(available_cores),
     cores |-> available_cores,
     draws |-> 1000, tune |-> 1500, target_accept |-> 90,
     max_treedepth |-> 12, random_seed |-> 42]

\* The hosts the full run is explored on.
HostCores == {1, 8, 32}

\* Line 491: the iterations per chain printed in the startup banner.
BannerPerChain == 2500

\* Lines 506-514: progress_callback. The total it assumes per chain, the
\* percentage it prints for a draw, and the trace it hands back.
CallbackTotalDraws == 2000

progress_callback(trace, draw) ==
    [trace |-> trace, progress |-> (draw * 100) \div CallbackTotalDraws]

\* FitSample leaving the trace collected so far on disk when sampling ends
\* early.
FitSample_SavesPartial ==
    /\ mode = "run" /\ pc = "fit_sample"
    /\ \E available_cores \in HostCores,
          result \in {"returned", "raised", "cancelled"} :
         /\ fit' = [fit EXCEPT !.sampler = SamplerSettings(available_cores)]
         /\ sampling' = result
         /\ CASE result = "returned" ->
                    /\ pc' = "save_summary"
                    /\ UNCHANGED <<exitCode, msg, artifacts>>
              [] result = "raised" ->
                    /\ Fatal(MsgLibrary)
                    /\ artifacts' = Append(artifacts, "lba_trace.nc")
              [] result = "cancelled" ->
                    /\ pc' = "exit"
                    /\ exitCode' = 130
                    /\ msg' = MsgInterrupt
                    /\ artifacts' = Append(artifacts, "lba_trace.nc")
    /\ UNCHANGED <<df, dfcols, cats>>
    /\ UNCHANGED out
    /\ UNCHANGED OtherVars

\* Lines 433-533: the likelihood node, the sampler settings and pm.sample,
\* which returns the trace, raises, or is interrupted. A KeyboardInterrupt is
\* not an Exception: main's handler does not catch it and the interpreter
\* ends with the traceback and status 130.
FitSample ==
    /\ mode = "run" /\ pc = "fit_sample"
    /\ \E available_cores \in HostCores,
          result \in {"returned", "raised", "cancelled"} :
         /\ fit' = [fit EXCEPT !.sampler = SamplerSettings(available_cores)]
         /\ sampling' = result
         /\ CASE result = "returned" ->
                    /\ pc' = "save_summary"
                    /\ UNCHANGED <<exitCode, msg>>
              [] result = "raised" -> Fatal(MsgLibrary)
              [] result = "cancelled" ->
                    /\ pc' = "exit"
                    /\ exitCode' = 130
                    /\ msg' = MsgInterrupt
    /\ UNCHANGED <<df, dfcols, cats, artifacts>>
    /\ UNCHANGED out
    /\ UNCHANGED OtherVars

\* ------------------------------------------------------------------- main
\* MainPymcGuard returning from main instead of calling sys.exit(1).
MainPymcGuard_Return ==
    /\ mode = "run" /\ pc = "fit_guard"
    /\ IF ~pymc
       THEN /\ pc' = "exit"
            /\ exitCode' = 0
            /\ msg' = MsgNoPymc
       ELSE /\ pc' = "fit_enter"
            /\ UNCHANGED <<exitCode, msg>>
    /\ UNCHANGED <<df, dfcols, cats, fit, sampling, artifacts>>
    /\ UNCHANGED out
    /\ UNCHANGED OtherVars

\* Lines 556-561: without PyMC main prints the error and exits with 1.
MainPymcGuard ==
    /\ mode = "run" /\ pc = "fit_guard"
    /\ IF ~pymc
       THEN Fatal(MsgNoPymc)
       ELSE /\ pc' = "fit_enter"
            /\ UNCHANGED <<exitCode, msg>>
    /\ UNCHANGED <<df, dfcols, cats, fit, sampling, artifacts>>
    /\ UNCHANGED out
    /\ UNCHANGED OtherVars

\* One export step inside main's try block: the file is written, or the
\* library call raises and main exits with 1.
Export(at, file, next) ==
    /\ mode = "run" /\ pc = at
    /\ \E ok \in BOOLEAN :
         IF ok
         THEN /\ artifacts' = Append(artifacts, file)
              /\ pc' = next
              /\ UNCHANGED <<exitCode, msg>>
         ELSE /\ Fatal(MsgLibrary)
              /\ UNCHANGED artifacts
    /\ UNCHANGED <<df, dfcols, cats, fit, sampling>>
    /\ UNCHANGED out
    /\ UNCHANGED OtherVars

\* Lines 573-580.
SaveSummary == Export("save_summary", "lba_parameters_summary.csv", "save_trace")

\* Lines 582-584.
SaveTrace == Export("save_trace", "lba_trace.nc", "save_json")

\* Lines 593-612: a posterior mean over chains and draws, kept as the name of
\* the variable and the cell of it that is averaged (<<>> for a scalar).
PosteriorMean(var, cell) == [var |-> var, cell |-> cell]

\* Lines 614-626: the nested mapping modality -> ui_mode -> parameters, as a
\* function of the (modality, ui_mode) key pair.
parameters_by_condition ==
    LET keys == { <<cats.modalities[m], cats.ui_modes[u]>> :
                    m \in 1..Len(cats.modalities), u \in 1..Len(cats.ui_modes) }
    IN [k \in keys |->
          [t0_mu |-> PosteriorMean("t0_mu", <<IndexOf(cats.modalities, k[1]),
                                              IndexOf(cats.ui_modes, k[2])>>),
           vc_base_mu |-> PosteriorMean("vc_base_mu", <<>>),
           vc_slope_mu |-> PosteriorMean("vc_slope_mu", <<>>),
           ve_mu |-> PosteriorMean("ve_mu", <<>>),
           gap_int_mu |-> PosteriorMean("gap_int_mu", <<>>),
           gap_slope_mu |-> PosteriorMean("gap_slope_mu", <<>>)]]

\* Lines 586-632: the mapping is built and written, or a library call raises
\* and main exits with 1.
SaveJson ==
    /\ mode = "run" /\ pc = "save_json"
    /\ \E ok \in BOOLEAN :
         IF ok
         THEN /\ out' = [out EXCEPT !.json = parameters_by_condition]
              /\ artifacts' = Append(artifacts, "lba_parameters.json")
              /\ pc' = "plot"
              /\ UNCHANGED <<exitCode, msg>>
         ELSE /\ Fatal(MsgLibrary)
              /\ UNCHANGED <<artifacts, out>>
    /\ UNCHANGED <<df, dfcols, cats, fit, sampling>>
    /\ UNCHANGED OtherVars

\* PlotTrace with a failure of the plot ending the run like an export failure.
PlotTrace_Fatal ==
    /\ mode = "run" /\ pc = "plot"
    /\ \E ok \in BOOLEAN :
         IF ok
         THEN /\ artifacts' = Append(artifacts, "lba_trace_plot.png")
              /\ pc' = "diagnostics"
              /\ UNCHANGED <<exitCode, msg>>
         ELSE /\ Fatal(MsgLibrary)
              /\ UNCHANGED artifacts
    /\ UNCHANGED <<df, dfcols, cats, fit, sampling>>
    /\ UNCHANGED out
    /\ UNCHANGED OtherVars

\* Lines 634-645: a failure of the trace plot is caught and only warned about.
PlotTrace ==
    /\ mode = "run" /\ pc = "plot"
    /\ \E ok \in BOOLEAN :
         IF ok
         THEN /\ artifacts' = Append(artifacts, "lba_trace_plot.png")
              /\ UNCHANGED out
         ELSE /\ out' = [out EXCEPT !.warnings = @ \cup {"plot_failed"}]
              /\ UNCHANGED artifacts
    /\ pc' = "diagnostics"
    /\ UNCHANGED <<df, dfcols, cats, fit, sampling, exitCode, msg>>
    /\ UNCHANGED OtherVars

\* Lines 651-652: the parameters whose diagnostics are checked.
var_names ==
    <<"vc_slope_mu", "gap_slope_mu", "t0_mu", "ve_mu", "vc_base_mu",
      "gap_int_mu", "t0_sd", "A_sd", "vc_base_sd", "gap_int_sd">>

\* R-hat in thousandths and ESS values of a trace, around the thresholds.
RhatVals == {1005, 1010, 1050, 1200}
EssVals == {50, 100, 400, 1000}
\* The values of the parameters that are not varied.
RhatGood == 1000
EssGood == 1000

\* The per-parameter values az.rhat or az.ess may return: one of two
\* parameters takes a value around the thresholds, the others a good one.
TraceValues(vals, good) ==
    { [x \in { var_names[k] : k \in 1..Len(var_names) } |->
          IF x = v THEN val ELSE good] :
      v \in {"vc_slope_mu", "gap_int_sd"}, val \in vals }

\* RhatStatus with the thresholds counted among the better class.
RhatStatus_Inclusive(rhat_val) ==
    IF rhat_val <= 1010 THEN "check"
    ELSE IF rhat_val <= 1050 THEN "warning"
    ELSE "cross"

\* Line 669: the mark printed with an R-hat value (check, warning sign, cross).
RhatStatus(rhat_val) ==
    IF rhat_val < 1010 THEN "check"
    ELSE IF rhat_val < 1050 THEN "warning"
    ELSE "cross"

\* Line 684: the mark printed with an ESS value.
EssStatus(ess_val) ==
    IF ess_val > 400 THEN "check"
    ELSE IF ess_val > 100 THEN "warning"
    ELSE "cross"

\* Lines 661, 680: float(x[var_name].values) works for an array of one
\* element only; t0_mu has one element per (modality, ui_mode) cell.
Extractable(var_name) ==
    var_name # "t0_mu" \/ Len(cats.modalities) * Len(cats.ui_modes) = 1

\* Lines 657-672, 677-687: one line per parameter, with the value and its
\* mark, or the note that the value could not be extracted.
Listing(values, diagnostic) ==
    [k \in 1..Len(var_names) |->
        IF Extractable(var_names[k])
        THEN [var |-> var_names[k], val |-> values[var_names[k]],
              status |-> IF diagnostic = "rhat"
                         THEN RhatStatus(values[var_names[k]])
                         ELSE EssStatus(values[var_names[k]])]
        ELSE [var |-> var_names[k], val |-> NaN, status |-> "not_extracted"]]

\* Lines 690-699: the values collected for the convergence check.
Collected(values) ==
    { values[var_names[k]] : k \in { j \in 1..Len(var_names) :
                                       Extractable(var_names[j]) } }

SetMax(S) == CHOOSE x \in S : \A y \in S : y <= x

\* Line 701: rhat_values and ((max(rhat_values) > 1.05 or
\* min(ess_values) < 100) if ess_values else False).
ConvergenceIssues(rhat_values, ess_values) ==
    /\ rhat_values # {}
    /\ IF ess_values # {}
       THEN SetMax(rhat_values) > 1050 \/ SetMin(ess_values) < 100
       ELSE FALSE

\* Lines 647-727: the diagnostics block. az.rhat or az.ess may raise, which the
\* block catches and reports; main then returns and the process exits with 0.
Diagnostics ==
    /\ mode = "run" /\ pc = "diagnostics"
    /\ \/ out' = [out EXCEPT
              !.diag = "raised",
              !.warnings = @ \cup {"diagnostics_failed"}]
       \/ \E rhat \in TraceValues(RhatVals, RhatGood) :
            out' = [out EXCEPT
              !.diag = "raised",
              !.rhat_report = Listing(rhat, "rhat"),
              !.warnings = @ \cup {"diagnostics_failed"}]
       \/ \E rhat \in TraceValues(RhatVals, RhatGood),
             ess \in TraceValues(EssVals, EssGood) :
            out' = [out EXCEPT
              !.diag = "done",
              !.rhat_report = Listing(rhat, "rhat"),
              !.ess_report = Listing(ess, "ess"),
              !.warnings = @ \cup
                  IF ConvergenceIssues(Collected(rhat), Collected(ess))
                  THEN {"convergence_issues"} ELSE {}]
    /\ pc' = "exit"
    /\ exitCode' = 0
    /\ UNCHANGED <<df, dfcols, cats, fit, sampling, artifacts, msg>>
    /\ UNCHANGED OtherVars

\* ---------------------------------------------------------- specification
Idle == [stage |-> "idle"]

Init ==
    /\ mode = "run"
    /\ pymc \in BOOLEAN
    /\ \/ files = 0 /\ cols = {} /\ rowsIn = <<>>
       \/ files = 1 /\ cols \in Schemas /\ rowsIn \in Tables
    /\ pc = "load"
    /\ df = <<>>
    /\ dfcols = {}
    /\ cats = NoCats
    /\ fit = NoFit
    /\ sampling = "not_started"
    /\ artifacts = <<>>
    /\ exitCode = NaN
    /\ msg = ""
    /\ prm = Idle
    /\ race = <<>>
    /\ out = NoOut
    /\ smp = Idle
    /\ chk = Idle
    /\ eng = Idle
    /\ ddm = Idle

Next ==
    \/ LoadFiles
    \/ MapColumns
    \/ ComputeID
    \/ DefaultPressure
    \/ FilterTrials
    \/ Normalize
    \/ IndexCategories
    \/ MainPymcGuard
    \/ FitEnter
    \/ FitMinRt
    \/ FitT0
    \/ FitParams
    \/ FitSample
    \/ SaveSummary
    \/ SaveTrace
    \/ SaveJson
    \/ PlotTrace
    \/ Diagnostics

Spec == Init /\ [][Next]_vars

\* ------------------------------------ parameter transforms as a function
\* One trial's raw values are drawn, then lines 380-404 and 431 are applied.
InitParams ==
    /\ mode = "params"
    /\ files = 0 /\ cols = {} /\ rowsIn = <<>> /\ pymc = TRUE
    /\ pc = "idle" /\ df = <<>> /\ dfcols = {} /\ cats = NoCats /\ fit = NoFit
    /\ sampling = "not_started" /\ artifacts = <<>> /\ exitCode = NaN /\ msg = ""
    /\ prm \in [stage : {"raw"}, raw : RawInputs]
    /\ race = <<>>
    /\ out = NoOut
    /\ smp = Idle
    /\ chk = Idle
    /\ eng = Idle
    /\ ddm = Idle

BuildParams ==
    /\ mode = "params" /\ prm.stage = "raw"
    /\ \E above \in BOOLEAN :
         prm' = [stage |-> "built", raw |-> prm.raw,
                 A |-> ParamA(prm.raw),
                 gap |-> ParamGap(prm.raw),
                 b |-> ParamB(ParamA(prm.raw), ParamGap(prm.raw), above),
                 s |-> DriftSd]
    /\ UNCHANGED <<mode, race, smp, chk, eng, ddm>>
    /\ UNCHANGED runVars

NextParams == BuildParams

SpecParams == InitParams /\ [][NextParams]_vars

\* ------------------------------------- sampler settings as a function
\* What a run's configuration may ask for explicitly: a number of chains and
\* a number of cores, NaN where it asks for nothing.
Requests == [chains : {NaN, 2, 6}, cores : {NaN, 1}]

\* A host with available_cores cores and a configuration; lines 456-527 are
\* then applied. main's parser (lines 540-543) takes --input and --output only
\* and fit_hierarchical_lba takes the data only.
InitSampler ==
    /\ mode = "sampler"
    /\ files = 0 /\ cols = {} /\ rowsIn = <<>> /\ pymc = TRUE
    /\ pc = "idle" /\ df = <<>> /\ dfcols = {} /\ cats = NoCats /\ fit = NoFit
    /\ sampling = "not_started" /\ artifacts = <<>> /\ exitCode = NaN /\ msg = ""
    /\ prm = Idle
    /\ race = <<>>
    /\ out = NoOut
    /\ smp \in [stage : {"host"}, available_cores : 1..MaxCores,
                 requested : Requests]
    /\ chk = Idle
    /\ eng = Idle
    /\ ddm = Idle

SelectSampler ==
    /\ mode = "sampler" /\ smp.stage = "host"
    /\ smp' = [stage |-> "sampling",
               available_cores |-> smp.available_cores,
               requested |-> smp.requested,
               settings |-> SamplerSettings(smp.available_cores)]
    /\ UNCHANGED <<mode, prm, race, chk, eng, ddm>>
    /\ UNCHANGED runVars

NextSampler == SelectSampler

SpecSampler == InitSampler /\ [][NextSampler]_vars

\* --------------------------------------------------- check_lba_progress.py
\* The key parameters whose R-hat the checker prints (line 125).
ProgressVars == <<"vc_slope_mu", "gap_slope_mu", "t0_mu", "ve_mu">>

\* Draws per chain found in a trace file, and the chains of a run.
DrawCounts == {0, 25, 1000}
ProgressChains == 4

\* Divergent draws among total draws: none, all, and counts around 1% and 5%
\* of 100 and of 4000 draws.
DivCounts(total) ==
    { d \in {0, 1, 2, 4, 5, 6, 39, 40, 41, 199, 200, 201, total} : d <= total }

\* Lines 87, 95-104: div_pct = total_divergences / total_samples * 100 and its
\* class; div_pct < 1.0 and div_pct < 5.0 as comparisons of integers.
DivergenceStatus(total_divergences, total_samples) ==
    IF total_divergences = 0 THEN "none"
    ELSE IF 100 * total_divergences < total_samples THEN "low"
    ELSE IF 100 * total_divergences < 5 * total_samples THEN "moderate"
    ELSE "high"

\* Line 133: the mark printed with an R-hat value.
ProgressRhatStatus(rhat_val) ==
    IF rhat_val < 1010 THEN "check"
    ELSE IF rhat_val < 1050 THEN "warning"
    ELSE "cross"

\* Lines 54-57: the draws per chain the checker expects, and the progress
\* it prints, in percent (nothing is printed for a trace without draws).
ExpectedDraws == 1000

ProgressPct(n_draws) ==
    IF n_draws > 0 THEN (n_draws * 100) \div ExpectedDraws ELSE NaN

\* Lines 60-69: the warmup draws per chain the checker expects, and what it
\* prints about the warmup group of the trace, if the trace has one.
ExpectedWarmup == 2000

WarmupCounts == {NaN, 750, 1500, 2000}

WarmupStatus(warmup_draws) ==
    IF warmup_draws = NaN THEN "not_reported"
    ELSE IF warmup_draws < ExpectedWarmup THEN "in_progress"
    ELSE "complete"

NoChk ==
    [stage |-> "start", file |-> "missing", n_draws |-> NaN, t0_cells |-> NaN,
     warmup_draws |-> NaN, progress_pct |-> NaN, warmup_status |-> "not_reported",
     stats |-> "absent", total_divergences |-> NaN, total_samples |-> NaN,
     div_status |-> "not_reported", rhat_report |-> <<>>, notes |-> {},
     exit |-> NaN]

InitProgress ==
    /\ mode = "progress"
    /\ files = 0 /\ cols = {} /\ rowsIn = <<>> /\ pymc = TRUE
    /\ pc = "idle" /\ df = <<>> /\ dfcols = {} /\ cats = NoCats /\ fit = NoFit
    /\ sampling = "not_started" /\ artifacts = <<>> /\ exitCode = NaN /\ msg = ""
    /\ prm = Idle
    /\ race = <<>>
    /\ out = NoOut
    /\ smp = Idle
    /\ chk \in { [NoChk EXCEPT !.file = f] : f \in {"missing", "unreadable", "ok"} }
    /\ eng = Idle
    /\ ddm = Idle

ProgressFrame ==
    /\ UNCHANGED <<mode, prm, race, smp, eng, ddm>>
    /\ UNCHANGED runVars

\* Lines 20-72: no trace file, a file az.from_netcdf cannot read (caught at
\* line 159), an empty posterior, or a trace with its dimensions.
ProgressLoad ==
    /\ mode = "progress" /\ chk.stage = "start"
    /\ CASE chk.file = "missing" ->
               chk' = [chk EXCEPT !.stage = "done", !.exit = 0,
                                  !.notes = @ \cup {"no_trace_file"}]
         [] chk.file = "unreadable" ->
               chk' = [chk EXCEPT !.stage = "done", !.exit = 0,
                                  !.notes = @ \cup {"error_reading_trace"}]
         [] chk.file = "ok" ->
               \/ chk' = [chk EXCEPT !.stage = "done", !.exit = 0,
                                     !.notes = @ \cup {"empty_trace"}]
               \/ \E n_draws \in DrawCounts, cells \in {1, 4},
                     stats \in {"absent", "present", "broken"},
                     warmup_draws \in WarmupCounts :
                    \E d \in DivCounts(ProgressChains * n_draws) :
                       /\ stats # "present" => d = 0
                       /\ chk' = [chk EXCEPT
                             !.stage = "divergences",
                             !.n_draws = n_draws,
                             !.progress_pct = ProgressPct(n_draws),
                             !.warmup_draws = warmup_draws,
                             !.warmup_status = WarmupStatus(warmup_draws),
                             !.t0_cells = cells,
                             !.stats = stats,
                             !.total_divergences =
                                 IF stats = "present" THEN d ELSE NaN,
                             !.total_samples =
                                 IF stats = "present"
                                 THEN ProgressChains * n_draws ELSE NaN]
    /\ ProgressFrame

\* Lines 79-118: the divergence report; an exception is caught and noted.
ProgressDivergences ==
    /\ mode = "progress" /\ chk.stage = "divergences"
    /\ CASE chk.stats = "present" ->
               chk' = [chk EXCEPT
                  !.stage = "rhat",
                  !.div_status = DivergenceStatus(chk.total_divergences,
                                                  chk.total_samples)]
         [] chk.stats = "absent" ->
               chk' = [chk EXCEPT !.stage = "rhat",
                                  !.notes = @ \cup {"no_divergence_info"}]
         [] chk.stats = "broken" ->
               chk' = [chk EXCEPT !.stage = "rhat",
                                  !.notes = @ \cup {"divergence_info_failed"}]
    /\ ProgressFrame

\* Lines 130-136: one line per key parameter whose R-hat converts to a
\* float; the others are passed over silently.
ProgressListing(rhat) ==
    LET shown == SelectSeq(ProgressVars,
                     LAMBDA x : x # "t0_mu" \/ chk.t0_cells = 1)
    IN [k \in 1..Len(shown) |->
          [var |-> shown[k], val |-> rhat[shown[k]],
           status |-> ProgressRhatStatus(rhat[shown[k]])]]

\* Lines 120-157: the R-hat report from 100 draws per chain on, then the
\* closing lines; check_progress returns and the process exits with 0.
ProgressRhat ==
    /\ mode = "progress" /\ chk.stage = "rhat"
    /\ IF chk.n_draws >= 100
       THEN \/ chk' = [chk EXCEPT !.stage = "done", !.exit = 0,
                                  !.notes = @ \cup {"rhat_failed"}]
            \/ \E v \in {"t0_mu", "ve_mu"}, r \in RhatVals :
                 chk' = [chk EXCEPT
                    !.stage = "done", !.exit = 0,
                    !.rhat_report = ProgressListing(
                        [x \in { ProgressVars[k] : k \in 1..Len(ProgressVars) }
                           |-> IF x = v THEN r ELSE RhatGood])]
       ELSE chk' = [chk EXCEPT !.stage = "done", !.exit = 0,
                               !.notes = @ \cup {"not_enough_samples"}]
    /\ ProgressFrame

NextProgress ==
    \/ ProgressLoad
    \/ ProgressDivergences
    \/ ProgressRhat

SpecProgress == InitProgress /\ [][NextProgress]_vars

\* The fit run or the progress checker: the two programs that report R-hat.
InitReports == Init \/ InitProgress

NextReports == Next \/ NextProgress

SpecReports == InitReports /\ [][NextReports]_vars

\* ------------------------------------------------------------ logp_lba_race
\* Log-densities handed over by compute_log_pdf_cdf, in tenths of a nat:
\* log(1e-12) and a density above 1; log(1e-10) and a survival near 1.
LogPdfVals == {-276, 5}
LogSfVals == {-230, -1}

\* logp_lba_race with the error branch weighted by the response as well.
logp_lba_race_same_weight(response, logpdf_c, logsf_c, logpdf_e, logsf_e) ==
    LET logprob_correct == logpdf_c + logsf_e
        logprob_error == logpdf_e + logsf_c
    IN response * logprob_correct + response * logprob_error

\* Lines 181-189: the two branches and their combination by the 0/1 response.
logp_lba_race(response, logpdf_c, logsf_c, logpdf_e, logsf_e) ==
    LET logprob_correct == logpdf_c + logsf_e
        logprob_error == logpdf_e + logsf_c
    IN response * logprob_correct + (1 - response) * logprob_error

InitRace ==
    /\ mode = "race"
    /\ files = 0 /\ cols = {} /\ rowsIn = <<>> /\ pymc = TRUE
    /\ pc = "idle" /\ df = <<>> /\ dfcols = {} /\ cats = NoCats /\ fit = NoFit
    /\ sampling = "not_started" /\ artifacts = <<>> /\ exitCode = NaN /\ msg = ""
    /\ prm = Idle
    /\ race = <<>>
    /\ out = NoOut
    /\ smp = Idle
    /\ chk = Idle
    /\ eng = Idle
    /\ ddm = Idle

\* The vectorised evaluation, one trial of the observed stack at a time.
RaceTrial ==
    /\ mode = "race" /\ Len(race) < MaxRaceTrials
    /\ \E response \in {0, 1}, logpdf_c \in LogPdfVals, logsf_c \in LogSfVals,
          logpdf_e \in LogPdfVals, logsf_e \in LogSfVals :
         race' = Append(race,
            [response |-> response,
             logpdf_c |-> logpdf_c, logsf_c |-> logsf_c,
             logpdf_e |-> logpdf_e, logsf_e |-> logsf_e,
             loglikelihood |->
                logp_lba_race(response, logpdf_c, logsf_c, logpdf_e, logsf_e)])
    /\ UNCHANGED <<mode, prm, smp, chk, eng, ddm>>
    /\ UNCHANGED runVars

NextRace == RaceTrial

SpecRace == InitRace /\ [][NextRace]_vars

\* ---------------------------------------------------------------- engine
\* The accumulator functions (lines 56-191) on IEEE doubles.  A double is one
\* of the landmarks below, in increasing order, or "nan"; 2.2e-16 is one unit
\* of rounding at 1.0, the size of the error of the sum of line 122 / 166.
Doubles == <<"-inf", "-2.2e-16", "0.0", "1e-80", "2.2e-16", "1e-12", "1e-10",
             "0.5", "1-1e-10", "1-2.2e-16", "1.0", "1+2.2e-16", "inf">>

Rank(x) == CHOOSE i \in 1..Len(Doubles) : Doubles[i] = x

\* x <= y on doubles: false when either side is NaN.
Leq(x, y) == x # "nan" /\ y # "nan" /\ Rank(x) <= Rank(y)

\* pt.maximum: the larger operand, NaN when either operand is NaN.
maximum(x, y) ==
    IF x = "nan" \/ y = "nan" THEN "nan"
    ELSE IF Rank(x) >= Rank(y) THEN x ELSE y

\* pt.clip: x < lo gives lo, x > hi gives hi, anything else (NaN too) is x.
clip(x, lo, hi) ==
    IF x = "nan" THEN "nan"
    ELSE IF Rank(x) < Rank(lo) THEN lo
    ELSE IF Rank(x) > Rank(hi) THEN hi
    ELSE x

\* A log-density: NaN, or a value in tenths of a nat.
Fin(n) == [nan |-> FALSE, tenths |-> n]

NaNLog == [nan |-> TRUE, tenths |-> 0]

Plus(x, y) == IF x.nan \/ y.nan THEN NaNLog ELSE Fin(x.tenths + y.tenths)

\* response * x with response 0 or 1: 0 * NaN is NaN.
Times01(response, x) == IF x.nan THEN NaNLog ELSE Fin(response * x.tenths)

\* pt.log on the values that reach it.
Log(x) ==
    CASE x = "nan" -> NaNLog
      [] x = "1e-12" -> Fin(-276)
      [] x = "1e-10" -> Fin(-230)
      [] x = "0.5" -> Fin(-7)
      [] x = "1.0" -> Fin(0)
      [] x = "inf" -> NaNLog
      [] OTHER -> Fin(0)

\* 1 - x on the values the clip of line 167 lets through.
OneMinus(x) ==
    CASE x = "1e-10" -> "1-1e-10"
      [] x = "1-1e-10" -> "1e-10"
      [] x = "1-2.2e-16" -> "2.2e-16"
      [] OTHER -> x

\* The classes of the start-point range A: exactly 0.0 (softplus underflow),
\* positive but so small that 1.0 / A overflows, or an ordinary double.
AClasses == {"zero", "subnormal", "normal"}

\* Accumulation times t, in increasing order: 0 stands for t <= 0, the first
\* two positive ones lie in the lower tail (true CDF far below 2.2e-16), the
\* next in the body of the distribution, the later ones in the upper tail.
TimeClass(t) ==
    IF t <= 0 THEN "nonpos"
    ELSE IF t <= 2 THEN "tail"
    ELSE IF t = 3 THEN "body"
    ELSE "upper"

\* Line 86 / 162: the values (1.0 / A) * (...) takes. 1.0 / A is inf for a
\* zero or subnormal A, and inf * 0 is NaN; for t <= 0 both Phi are 1.0 and
\* both phi are 0.0, which gives exactly 0.0; in the lower tail the bracket is
\* rounding noise of either sign.
pdf_val(A, t) ==
    IF A # "normal" THEN {"nan", "inf", "-inf"}
    ELSE CASE TimeClass(t) = "nonpos" -> {"0.0"}
           [] TimeClass(t) = "tail" -> {"-2.2e-16", "1e-80", "2.2e-16"}
           [] TimeClass(t) = "body" -> {"0.5"}
           [] OTHER -> {"1e-80", "1e-12"}

\* Line 122 / 166: the values of 1 + X * Phi1 - Y * Phi2 + Z * (phi1 - phi2).
\* X and Y are infinite for a zero or subnormal A and inf - inf is NaN;
\* otherwise the sum carries a rounding error of about 2.2e-16.
cdf_val(A, t) ==
    IF A # "normal" THEN {"nan"}
    ELSE CASE TimeClass(t) = "nonpos" -> {"-2.2e-16", "0.0", "2.2e-16"}
           [] TimeClass(t) = "tail" -> {"-2.2e-16", "1e-80", "2.2e-16"}
           [] TimeClass(t) = "body" -> {"0.5"}
           [] OTHER -> {"1-1e-10", "1.0", "1+2.2e-16"}

\* Line 94: the floor of pdf_lba_single.
pdf_lba_single(raw) == maximum(raw, "1e-12")

\* Line 124: the clip of cdf_lba_single.
cdf_lba_single(raw) == clip(raw, "0.0", "1.0")

\* Lines 146-173, the helper of logp_lba_race: logpdf and logsf of one
\* accumulator from its raw density and distribution values.
compute_log_pdf_cdf(p, c) ==
    LET cdf == clip(c, "1e-10", "1-1e-10")
    IN [pdf_val |-> p,
        pdf |-> maximum(p, "1e-12"),
        cdf_val |-> c,
        cdf |-> cdf,
        logpdf |-> Log(maximum(p, "1e-12")),
        logsf |-> Log(OneMinus(cdf))]

\* Lines 175-191 on the two helper results.
loglikelihood(response, c, e) ==
    LET logprob_correct == Plus(c.logpdf, e.logsf)
        logprob_error == Plus(e.logpdf, c.logsf)
    IN Plus(Times01(response, logprob_correct),
            Times01(1 - response, logprob_error))

NoTrial == [t |-> NaN]

InitEngine ==
    /\ mode = "engine"
    /\ files = 0 /\ cols = {} /\ rowsIn = <<>> /\ pymc = TRUE
    /\ pc = "idle" /\ df = <<>> /\ dfcols = {} /\ cats = NoCats /\ fit = NoFit
    /\ sampling = "not_started" /\ artifacts = <<>> /\ exitCode = NaN /\ msg = ""
    /\ prm = Idle
    /\ race = <<>>
    /\ out = NoOut
    /\ smp = Idle
    /\ chk = Idle
    /\ eng \in { [stage |-> "engine", A |-> a, calls |-> <<>>, trial |-> NoTrial] :
                 a \in AClasses }
    /\ ddm = Idle

EngineFrame ==
    /\ UNCHANGED <<mode, prm, race, smp, chk, ddm>>
    /\ UNCHANGED runVars

\* The times at which the function fn has not been evaluated yet: a grid of
\* times is evaluated in increasing order.
LaterTimes(fn) ==
    { t \in 1..MaxTime :
        \A i \in 1..Len(eng.calls) :
            eng.calls[i].fn = fn => eng.calls[i].t < t }

\* One call of pdf_lba_single at a time t > 0.
EvalPdf ==
    /\ mode = "engine" /\ Len(eng.calls) < MaxEvals
    /\ \E t \in LaterTimes("pdf") : \E raw \in pdf_val(eng.A, t) :
         eng' = [eng EXCEPT !.calls = Append(@,
                    [fn |-> "pdf", t |-> t, raw |-> raw,
                     value |-> pdf_lba_single(raw)])]
    /\ EngineFrame

\* One call of cdf_lba_single at a time t > 0.
EvalCdf ==
    /\ mode = "engine" /\ Len(eng.calls) < MaxEvals
    /\ \E t \in LaterTimes("cdf") : \E raw \in cdf_val(eng.A, t) :
         eng' = [eng EXCEPT !.calls = Append(@,
                    [fn |-> "cdf", t |-> t, raw |-> raw,
                     value |-> cdf_lba_single(raw)])]
    /\ EngineFrame

\* logp_lba_race on one trial of the observed data: t = rt - t0 may be <= 0
\* (line 140).  One trial is evaluated per exploration.
EvalTrial ==
    /\ mode = "engine" /\ eng.trial = NoTrial
    /\ \E t \in 0..MaxTime, response \in {0, 1} :
       \E pc_ \in pdf_val(eng.A, t), cc \in cdf_val(eng.A, t),
          pe \in pdf_val(eng.A, t), ce \in cdf_val(eng.A, t) :
         LET c == compute_log_pdf_cdf(pc_, cc)
             e == compute_log_pdf_cdf(pe, ce)
         IN eng' = [eng EXCEPT !.trial =
                      [t |-> t, response |-> response, c |-> c, e |-> e,
                       loglikelihood |-> loglikelihood(response, c, e)]]
    /\ EngineFrame

NextEngine == EvalPdf \/ EvalCdf \/ EvalTrial

SpecEngine == InitEngine /\ [][NextEngine]_vars

\* ------------------------------------------------------------ ddm_hddm.py
\* Trials left by load_data, around the threshold of line 129.
MinDdmTrials == 100

TrialCounts == {0, MinDdmTrials - 1, MinDdmTrials, 5 * MinDdmTrials}

\* No result yet; "None" stands for Python's None.
NoResult == [method |-> "none", error |-> "None", recommendation |-> "None",
             parameters |-> "None"]

\* A run of ddm_hddm.py before main has done anything.
NoDdm ==
    [stage |-> "load", method |-> "auto", input |-> "ok", hddm |-> "ok",
     pymc |-> TRUE, n_trials |-> 0, disk |-> "ok", result |-> NoResult,
     fitted |-> {}, printed |-> {}, written |-> FALSE, exit |-> NaN]

\* The command line (--method), the input, the installed packages and the
\* state of the output directory.
InitDdm ==
    /\ mode = "ddm"
    /\ files = 0 /\ cols = {} /\ rowsIn = <<>> /\ pymc = TRUE
    /\ pc = "idle" /\ df = <<>> /\ dfcols = {} /\ cats = NoCats /\ fit = NoFit
    /\ sampling = "not_started" /\ artifacts = <<>> /\ exitCode = NaN /\ msg = ""
    /\ prm = Idle
    /\ race = <<>>
    /\ out = NoOut
    /\ smp = Idle
    /\ chk = Idle
    /\ eng = Idle
    /\ ddm \in { [NoDdm EXCEPT !.method = m, !.input = i, !.hddm = h,
                               !.pymc = p, !.n_trials = n, !.disk = d] :
                 m \in {"auto", "hddm", "pymc"},
                 i \in {"ok", "unreadable"},
                 h \in {"missing", "fails", "ok"},
                 p \in BOOLEAN,
                 n \in TrialCounts,
                 d \in {"ok", "read_only"} }

DdmFrame ==
    /\ UNCHANGED <<mode, prm, race, smp, chk, eng>>
    /\ UNCHANGED runVars

\* Lines 235-256: load_data raises and main exits with 1, or the fit function
\* of the chosen method is called.
DdmLoad ==
    /\ mode = "ddm" /\ ddm.stage = "load"
    /\ ddm' = IF ddm.input # "ok"
              THEN [ddm EXCEPT !.stage = "done", !.exit = 1]
              ELSE [ddm EXCEPT !.stage = IF ddm.method = "pymc"
                                         THEN "fit_ddm_pymc" ELSE "fit_ddm_hddm"]
    /\ DdmFrame

\* Lines 66-110: the HDDM fit returns its statistics; without the package, or
\* when the fit raises, fit_ddm_pymc is called.
fit_ddm_hddm ==
    /\ mode = "ddm" /\ ddm.stage = "fit_ddm_hddm"
    /\ ddm' = IF ddm.hddm = "ok"
              THEN [ddm EXCEPT
                      !.stage = "save",
                      !.fitted = @ \cup {"hddm"},
                      !.result = [NoResult EXCEPT !.method = "hddm",
                                                  !.parameters = "gen_stats"]]
              ELSE [ddm EXCEPT !.stage = "fit_ddm_pymc"]
    /\ DdmFrame

\* Lines 113-166: without PyMC, fallback_to_lba; with fewer than 100 trials a
\* result without parameters; otherwise the means of the four priors (line
\* 148: the likelihood is a placeholder, nothing is sampled).
fit_ddm_pymc ==
    /\ mode = "ddm" /\ ddm.stage = "fit_ddm_pymc"
    /\ ddm' = IF ~ddm.pymc
              THEN [ddm EXCEPT !.stage = "fallback_to_lba"]
              ELSE IF ddm.n_trials < MinDdmTrials
              THEN [ddm EXCEPT
                      !.stage = "save",
                      !.printed = @ \cup {"consider_lba"},
                      !.result = [NoResult EXCEPT !.method = "pymc_fallback",
                                                  !.error = "insufficient_data"]]
              ELSE [ddm EXCEPT
                      !.stage = "save",
                      !.fitted = @ \cup {"pymc_priors"},
                      !.result = [NoResult EXCEPT !.method = "pymc",
                                                  !.parameters = "prior_means"]]
    /\ DdmFrame

\* Lines 169-195: the recommendation is printed and returned; nothing is fitted.
fallback_to_lba ==
    /\ mode = "ddm" /\ ddm.stage = "fallback_to_lba"
    /\ ddm' = [ddm EXCEPT
                 !.stage = "save",
                 !.printed = @ \cup {"run_lba_instead"},
                 !.result = [NoResult EXCEPT
                               !.method = "fallback_lba",
                               !.error = "insufficient_data_or_dependencies",
                               !.recommendation = "use_lba"]]
    /\ DdmFrame

\* DdmSave ending with exit code 0 whatever the result.
DdmSave_AlwaysZero ==
    /\ mode = "ddm" /\ ddm.stage = "save"
    /\ ddm' = IF ddm.disk # "ok"
              THEN [ddm EXCEPT !.stage = "done", !.exit = 1]
              ELSE [ddm EXCEPT !.stage = "done",
                               !.written = ddm.result.parameters # "None",
                               !.exit = 0]
    /\ DdmFrame

\* Lines 258-272: the output directory is made, ddm_parameters.json is written
\* when the result has parameters, and the exit code is 0 then and 1 otherwise;
\* an OSError of mkdir or open is not caught and ends the run with 1.
DdmSave ==
    /\ mode = "ddm" /\ ddm.stage = "save"
    /\ ddm' = IF ddm.disk # "ok"
              THEN [ddm EXCEPT !.stage = "done", !.exit = 1]
              ELSE [ddm EXCEPT !.stage = "done",
                               !.written = ddm.result.parameters # "None",
                               !.exit = IF ddm.result.parameters # "None"
                                        THEN 0 ELSE 1]
    /\ DdmFrame

NextDdm == DdmLoad \/ fit_ddm_hddm \/ fit_ddm_pymc \/ fallback_to_lba \/ DdmSave

SpecDdm == InitDdm /\ [][NextDdm]_vars

\* ------------------------------------------------------------------ claims
\* fit_hierarchical_lba has run its t0 construction (lines 359-374): it went on
\* to the next block, or raised there.
T0StepDone == pc = "fit_params" \/ fit.raisedAt = "t0"

\* The retained trials of one (modality, interface-mode) cell.
CellTrials(m, u) ==
    { i \in 1..Len(df) : df[i].mod_idx = m /\ df[i].ui_mode_idx = u }

\* C1: once the model's t0 has been constructed, every retained trial has a
\* t0 with 0 <= t0 < RT of that trial, so t = RT - t0 is strictly positive.
C1_T0BelowRT ==
    T0StepDone =>
        /\ Len(fit.t0) = Len(df)
        /\ \A i \in 1..Len(df) :
              0 <= fit.t0[i] /\ fit.t0[i] < RtObs(df[i])

\* C2: computing the per-cell minimum RTs leaves the per-trial mod_idx and
\* ui_mode_idx arrays as they were, and every trial's t0_raw reads the t0_mu
\* entry of its own (modality, interface-mode) cell and the offset of its own
\* participant in that cell.
C2_OwnCell ==
    T0StepDone =>
        /\ fit.mod_idx.kind = "array"
        /\ fit.mod_idx.arr = [i \in 1..Len(df) |-> df[i].mod_idx]
        /\ fit.ui_mode_idx = [i \in 1..Len(df) |-> df[i].ui_mode_idx]
        /\ Len(fit.t0_cell) = Len(df)
        /\ \A i \in 1..Len(df) :
              /\ fit.t0_cell[i].mu = <<df[i].mod_idx, df[i].ui_mode_idx>>
              /\ fit.t0_cell[i].offset =
                    <<df[i].pid_idx, df[i].mod_idx, df[i].ui_mode_idx>>

\* C3: the upper bound kept for a trial's cell is 0.95 times the smallest RT
\* among the retained trials of exactly that (modality, interface-mode) cell.
C3_BoundIsCellMin ==
    pc = "fit_t0" =>
        \A i \in 1..Len(df) :
            LET c == <<df[i].mod_idx, df[i].ui_mode_idx>>
            IN /\ c \in DOMAIN fit.min_rt_by_condition
               /\ fit.min_rt_by_condition[c] =
                    BoundPct * SetMin({ df[j].rt_ms : j \in CellTrials(c[1], c[2]) })

\* C4: for every value of the raw parameters the derived A is > 0, gap is > 0
\* and b = A + gap is strictly greater than A; s is the constant 1.
C4_ThresholdAboveStart ==
    prm.stage = "built" =>
        /\ prm.A # ZeroF
        /\ prm.gap # ZeroF
        /\ prm.b.gtA
        /\ prm.s = 1

\* C5: a trial with response 1 gets exactly logPDF(v_c) + log(1 - CDF(v_e)),
\* a trial with response 0 exactly logPDF(v_e) + log(1 - CDF(v_c)); the other
\* branch adds nothing.
C5_ResponseSelectsBranch ==
    \A i \in 1..Len(race) :
        race[i].loglikelihood =
            IF race[i].response = 1
            THEN race[i].logpdf_c + race[i].logsf_e
            ELSE race[i].logpdf_e + race[i].logsf_c

\* A stack with a correct and an error trial whose two branches differ.
C5_Witness ==
    /\ Len(race) = 2
    /\ race[1].response = 1 /\ race[2].response = 0
    /\ \A i \in 1..2 :
         race[i].logpdf_c + race[i].logsf_e # race[i].logpdf_e + race[i].logsf_c

\* load_and_prep_data has returned to main.
PrepReturned ==
    pc \in {"fit_guard", "fit_enter", "fit_min_rt", "fit_t0", "fit_params",
            "fit_sample", "save_summary", "save_trace", "save_json", "plot",
            "diagnostics"}

\* The outcome value the input gives for a retained row: the correct column,
\* or else the error column it is derived from.
InputOutcome(r) ==
    IF "correct" \in cols THEN rowsIn[r.idx].correct ELSE rowsIn[r.idx].error

\* C6: after load_and_prep_data every retained trial has an rt_ms within
\* 200..5000 and a non-missing difficulty, outcome and pressure, also when the
\* outcome comes from the error column (a missing error is a missing outcome).
C6_RetainedTrialsValid ==
    PrepReturned =>
        \A i \in 1..Len(df) :
            /\ df[i].rt_ms # NaN
            /\ df[i].rt_ms >= MinRtMs /\ df[i].rt_ms <= MaxRtMs
            /\ df[i].ID # NaN
            /\ InputOutcome(df[i]) # NaN
            /\ df[i].pressure # NaN

\* The four data errors, as properties of the input.
NoFilesFound == files = 0
NoRtColumn ==
    cols \cap {"rt_ms", "verification_time_ms", "movement_time_ms"} = {}
NoOutcomeColumn == cols \cap {"correct", "error"} = {}
NoDifficulty == "ID" \notin cols /\ ~HasTargetPair(cols) /\ ~HasAWPair(cols)
DataError == NoFilesFound \/ NoRtColumn \/ NoOutcomeColumn \/ NoDifficulty

\* The message names a field that is in fact missing from the input.
MsgNamesMissingField ==
    \/ msg = MsgNoFiles /\ NoFilesFound
    \/ msg = MsgNoRt /\ NoRtColumn
    \/ msg = MsgKeyError("correct") /\ NoOutcomeColumn
    \/ msg = MsgNoId /\ NoDifficulty

\* C7: with no input file, no RT column, no outcome column or no derivable
\* difficulty, data preparation never returns and sampling never starts; the
\* run exits with a non-zero code and a message naming a missing field.
C7_DataErrorsFailFast ==
    DataError =>
        /\ ~PrepReturned
        /\ sampling = "not_started"
        /\ pc = "exit" => exitCode = 1 /\ MsgNamesMissingField

C7_Witness ==
    /\ pc = "exit" /\ exitCode = 1
    /\ NoOutcomeColumn /\ ~NoRtColumn /\ ~NoDifficulty
    /\ msg = MsgKeyError("correct")
    /\ Len(rowsIn) > 0

\* C8: ID is the ID column when the input has one, otherwise it is computed
\* from target_amplitude_px/target_width_px, otherwise from A/W; once files
\* and an RT column were found, preparation fails with the missing-difficulty
\* error exactly when none of the three is available.
C8_DifficultySource ==
    /\ pc = "pressure" =>
          /\ ~NoDifficulty
          /\ \A i \in 1..Len(df) :
                df[i].ID =
                    IF "ID" \in cols THEN rowsIn[i].ID
                    ELSE IF HasTargetPair(cols)
                    THEN ShannonID(rowsIn[i].target_amplitude_px,
                                   rowsIn[i].target_width_px)
                    ELSE ShannonID(rowsIn[i].A, rowsIn[i].W)
    /\ msg = MsgNoId => pc = "exit" /\ exitCode = 1 /\ NoDifficulty
    /\ (pc = "exit" /\ NoDifficulty /\ ~NoFilesFound /\ ~NoRtColumn)
          => msg = MsgNoId
    /\ (NoDifficulty /\ pc # "exit") => pc \in {"load", "columns", "difficulty"}

\* Both pairs are present, without an ID column: the target pair decides.
C8_Witness ==
    /\ pc = "pressure"
    /\ "ID" \notin cols /\ HasTargetPair(cols) /\ HasAWPair(cols)
    /\ Len(df) = 2
    /\ \A i \in 1..Len(df) :
          /\ rowsIn[i].target_amplitude_px # NaN
          /\ df[i].ID # ShannonID(rowsIn[i].A, rowsIn[i].W)

\* The three artifacts of a successful export, in the order written.
ExportWritten ==
    /\ Len(artifacts) >= 3
    /\ artifacts[1] = "lba_parameters_summary.csv"
    /\ artifacts[2] = "lba_trace.nc"
    /\ artifacts[3] = "lba_parameters.json"

\* C9: a run in which no valid trial remains after filtering exits with a
\* non-zero code; the exit code is 0 only when the fit and the export succeeded.
C9_ExitCode ==
    pc = "exit" =>
        /\ Len(df) = 0 => exitCode # 0
        /\ exitCode = 0 => sampling = "returned" /\ ExportWritten

\* C10: without PyMC the run exits with a non-zero code, writes no artifact,
\* never enters the fit and never samples.
C10_MissingPymcFatal ==
    ~pymc =>
        /\ sampling = "not_started"
        /\ artifacts = <<>>
        /\ fit = NoFit
        /\ pc \notin {"fit_enter", "fit_min_rt", "fit_t0", "fit_params",
                      "fit_sample", "save_summary", "save_trace", "save_json",
                      "plot", "diagnostics"}
        /\ pc = "exit" => exitCode = 1

C10_Witness ==
    /\ ~pymc /\ pc = "exit" /\ msg = MsgNoPymc /\ exitCode = 1
    /\ Len(df) > 0

\* The retained trials of the (modality, interface-mode) cell of trial i that
\* are error trials.
CellErrors(i) ==
    { j \in 1..Len(df) :
        /\ df[j].modality = df[i].modality
        /\ df[j].ui_mode = df[i].ui_mode
        /\ df[j].correct = 0 }

\* C19: when data preparation has returned, a warning about missing error
\* trials was emitted for every (modality, interface-mode) cell of the retained
\* trials that has zero error trials; the warning does not end the run.
C19_ZeroErrorCellWarned ==
    /\ PrepReturned =>
          \A i \in 1..Len(df) :
              CellErrors(i) = {} => "no_error_trials" \in out.warnings
    /\ (pc = "normalize" /\ "no_error_trials" \in out.warnings) => exitCode = NaN

\* values lists the distinct values of the column col of the retained trials,
\* and idx gives every trial the 0-based position of its own value.
IsIndexMap(values, col, idx) ==
    /\ \A j, k \in 1..Len(values) : values[j] = values[k] => j = k
    /\ \A i \in 1..Len(df) :
          /\ idx[i] \in 0..(Len(values) - 1)
          /\ values[idx[i] + 1] = col[i]
    /\ \A k \in 0..(Len(values) - 1) : \E i \in 1..Len(df) : idx[i] = k

\* C20: when data preparation has returned, participants, modalities and
\* ui_modes list the distinct values of the retained trials, each trial's
\* pid_idx, mod_idx and ui_mode_idx is the 0-based position of its own value in
\* that list, and every position is used by some retained trial.
C20_IndexMaps ==
    PrepReturned =>
        /\ IsIndexMap(cats.participants, ColumnValues("pid"),
                      [i \in 1..Len(df) |-> df[i].pid_idx])
        /\ IsIndexMap(cats.modalities, ColumnValues("modality"),
                      [i \in 1..Len(df) |-> df[i].mod_idx])
        /\ IsIndexMap(cats.ui_modes, ColumnValues("ui_mode"),
                      [i \in 1..Len(df) |-> df[i].ui_mode_idx])

\* Two retained trials of different participants and modalities in one
\* interface mode.
C20_Witness ==
    /\ pc = "fit_guard"
    /\ Len(df) = 2
    /\ Len(cats.participants) = 2 /\ Len(cats.modalities) = 2
    /\ Len(cats.ui_modes) = 1
    /\ df[2].pid_idx = 1 /\ df[2].mod_idx = 1 /\ df[2].ui_mode_idx = 0

Reported(report) ==
    { k \in 1..Len(report) : report[k].status # "not_extracted" }

\* A checked parameter with a non-converged R-hat (1.05 or above) or a poor
\* ESS (below 100) is among the values the run reported.
PathologyReported ==
    \/ \E k \in Reported(out.rhat_report) : out.rhat_report[k].val >= 1050
    \/ \E k \in Reported(out.ess_report) : out.ess_report[k].val < 100

\* C12: a run that reached the diagnostics has exported the summary, the trace
\* and the JSON and exits with 0; when a checked parameter has a high R-hat or
\* a low ESS the warning with the remediation advice was printed, and when
\* computing the diagnostics raised, a warning was printed.
C12_PathologiesNonFatal ==
    (pc = "exit" /\ out.diag # "not_run") =>
        /\ ExportWritten
        /\ exitCode = 0
        /\ out.diag = "raised" =>
              out.warnings \cap {"diagnostics_failed", "convergence_issues"} # {}
        /\ (out.diag = "done" /\ PathologyReported) =>
              "convergence_issues" \in out.warnings

\* Each listed R-hat value carries the mark of its class: below 1.01
\* excellent, from 1.01 and below 1.05 acceptable, 1.05 or above non-converged.
RhatMarked(report) ==
    \A k \in Reported(report) :
        report[k].status =
            IF report[k].val < 1010 THEN "check"
            ELSE IF report[k].val < 1050 THEN "warning"
            ELSE "cross"

\* C13: every R-hat value reported by the fit run and by the progress checker
\* is classified excellent below 1.01, acceptable from 1.01 and below 1.05,
\* and non-converged at 1.05 or above.
C13_RhatClasses ==
    /\ mode = "run" => RhatMarked(out.rhat_report)
    /\ mode = "progress" => RhatMarked(chk.rhat_report)

\* The fit run has listed a parameter at the boundary 1.01 as acceptable.
C13_Witness ==
    /\ mode = "run" /\ pc = "exit" /\ out.diag = "done"
    /\ \E k \in Reported(out.rhat_report) :
          out.rhat_report[k].val = 1010 /\ out.rhat_report[k].status = "warning"

\* C14: every ESS value reported by the fit run is classified adequate at 400
\* or above, marginal from 100 and below 400, and poor below 100.
C14_EssClasses ==
    \A k \in Reported(out.ess_report) :
        out.ess_report[k].status =
            IF out.ess_report[k].val >= 400 THEN "check"
            ELSE IF out.ess_report[k].val >= 100 THEN "warning"
            ELSE "cross"

\* C15: the progress checker's divergence rate is divergent draws over all
\* draws, classified ideal at 0%, acceptable below 1%, concerning from 1% to
\* 5% and as needing reparameterization above 5%; the checker ends with exit
\* code 0 in every case.
C15_DivergenceClasses ==
    /\ chk.div_status # "not_reported" =>
          LET d == chk.total_divergences
              n == chk.total_samples
          IN chk.div_status =
                IF d = 0 THEN "none"
                ELSE IF 100 * d < n THEN "low"
                ELSE IF 100 * d <= 5 * n THEN "moderate"
                ELSE "high"
    /\ chk.stage = "done" => chk.exit = 0

\* C16: a run that prepared at least one condition cell and was not stopped by
\* a library failure or an interrupt ends with an exported mapping that has,
\* for the (modality, interface-mode) pair of every retained trial, an entry
\* whose t0 is the posterior mean of the t0_mu cell that trial's t0 reads, and
\* whose shared values are those of every other entry.
C16_JsonPerCell ==
    (pc = "exit" /\ pymc /\ Len(cats.modalities) > 0
        /\ msg \notin {MsgLibrary, MsgInterrupt}) =>
        /\ \A i \in 1..Len(df) :
              LET key == <<df[i].modality, df[i].ui_mode>>
              IN /\ key \in DOMAIN out.json
                 /\ out.json[key].t0_mu =
                       PosteriorMean("t0_mu", <<df[i].mod_idx, df[i].ui_mode_idx>>)
                 /\ out.json[key].t0_mu.cell = fit.t0_cell[i].mu
        /\ \A j, k \in DOMAIN out.json :
              [out.json[j] EXCEPT !.t0_mu = 0] = [out.json[k] EXCEPT !.t0_mu = 0]

\* C17: when the run's configuration asks for a number of chains or cores,
\* sampling uses that number instead of the one derived from the host.
C17_ExplicitOverride ==
    smp.stage = "sampling" =>
        /\ smp.requested.chains # NaN =>
              smp.settings.chains = smp.requested.chains
        /\ smp.requested.cores # NaN =>
              smp.settings.cores = smp.requested.cores

CallsOf(fn) == { i \in 1..Len(eng.calls) : eng.calls[i].fn = fn }

\* C21: for A > 0 and t > 0 the standalone density is >= 0, the standalone
\* distribution function lies in [0, 1] and does not decrease in t.
C21_DensityAndDistribution ==
    (mode = "engine" /\ eng.A # "zero") =>
        /\ \A i \in CallsOf("pdf") : Leq("0.0", eng.calls[i].value)
        /\ \A i \in CallsOf("cdf") :
              Leq("0.0", eng.calls[i].value) /\ Leq(eng.calls[i].value, "1.0")
        /\ \A i, j \in CallsOf("cdf") :
              eng.calls[i].t < eng.calls[j].t =>
                  Leq(eng.calls[i].value, eng.calls[j].value)

\* The helper results of the trial evaluated last.
Helpers == IF eng.trial = NoTrial THEN {} ELSE {eng.trial.c, eng.trial.e}

\* C22: every distribution value, of cdf_lba_single and of the helper of
\* logp_lba_race alike, lies in [1e-10, 1 - 1e-10], and every density is at
\* least 1e-12 before its logarithm is taken.
C22_SameFloors ==
    mode = "engine" =>
        /\ \A i \in CallsOf("cdf") :
              Leq("1e-10", eng.calls[i].value) /\ Leq(eng.calls[i].value, "1-1e-10")
        /\ \A i \in CallsOf("pdf") : Leq("1e-12", eng.calls[i].value)
        /\ \A h \in Helpers :
              Leq("1e-10", h.cdf) /\ Leq(h.cdf, "1-1e-10") /\ Leq("1e-12", h.pdf)

\* C23: the log-likelihood of every trial, t <= 0 included, is a number and
\* is at least log(1e-12) + log(1e-10).
C23_TrialFinite ==
    (mode = "engine" /\ eng.trial # NoTrial) =>
        /\ ~eng.trial.loglikelihood.nan
        /\ eng.trial.loglikelihood.tenths >= Log("1e-12").tenths + Log("1e-10").tenths

\* C24: when the diagnostics block completes, every parameter of its list has
\* an extracted and classified R-hat value and ESS value; none is skipped.
C24_EveryParameterChecked ==
    (mode = "run" /\ out.diag = "done") =>
        \A k \in 1..Len(var_names) :
            /\ out.rhat_report[k].status # "not_extracted"
            /\ out.ess_report[k].status # "not_extracted"

\* C25: the convergence warning is printed exactly when some reported
\* parameter has an R-hat of 1.05 or more, or an ESS below 100.
C25_WarningIffNotConverged ==
    (mode = "run" /\ out.diag = "done") =>
        ("convergence_issues" \in out.warnings <=>
            \/ \E k \in Reported(out.rhat_report) : out.rhat_report[k].val >= 1050
            \/ \E k \in Reported(out.ess_report) : out.ess_report[k].val < 100)

C27_CovariatesDefined ==
    PrepReturned =>
        \A i \in 1..Len(df) :
            /\ ~df[i].ID_norm.nan
            /\ df[i].pressure_norm # NaN
            /\ df[i].pressure_norm = df[i].pressure - 1
            /\ "pressure" \notin cols => df[i].pressure_norm = 0

\* C28: a run that exits with 0 has written the summary, the trace and the
\* JSON file, in that order; a step of the three that writes nothing ends the
\* run with exit code 1; the plot step never ends the run or sets the exit
\* code, and a run whose plot failed still exits with 0.
C28_ExportOrder ==
    [][/\ (pc' = "exit" /\ exitCode' = 0) => ExportWritten'
       /\ (pc \in {"save_summary", "save_trace", "save_json"}
             /\ artifacts' = artifacts) => (pc' = "exit" /\ exitCode' = 1)
       /\ pc = "plot" => (pc' = "diagnostics" /\ exitCode' = exitCode)
       /\ (pc' = "exit" /\ "plot_failed" \in out'.warnings) => exitCode' = 0]_vars

\* A run whose plot failed has exited with 0 after the three files.
C28_Witness ==
    /\ mode = "run" /\ pc = "exit" /\ exitCode = 0
    /\ "plot_failed" \in out.warnings
    /\ artifacts = <<"lba_parameters_summary.csv", "lba_trace.nc",
                     "lba_parameters.json">>

\* C29: the iteration counts of progress reporting agree with the sampler
\* configuration: the banner and progress_callback count warmup + draws per
\* chain, the checker expects the configured draws and warmup, and so reports
\* the trace of a completed run as 100% with the warmup complete;
\* progress_callback returns the trace it was given.
C29_IterationCountsAgree ==
    LET cfg == SamplerSettings(1)
    IN (mode = "progress" /\ chk.n_draws = cfg.draws
          /\ chk.warmup_draws = cfg.tune) =>
          /\ BannerPerChain = cfg.tune + cfg.draws
          /\ CallbackTotalDraws = cfg.tune + cfg.draws
          /\ progress_callback(chk.file, cfg.tune + cfg.draws) =
                [trace |-> chk.file, progress |-> 100]
          /\ ExpectedDraws = cfg.draws
          /\ ExpectedWarmup = cfg.tune
          /\ chk.progress_pct = 100
          /\ chk.warmup_status = "complete"

\* The inputs with which no DDM fit returns parameters: the HDDM fit is not
\* tried or not available or fails, and PyMC is missing or the trials are
\* fewer than 100.
DdmFallbackPath ==
    /\ ddm.input = "ok"
    /\ ddm.method = "pymc" \/ ddm.hddm # "ok"
    /\ ~ddm.pymc \/ ddm.n_trials < MinDdmTrials

====
